---- MODULE Spec2Model ----
(***************************************************************************)
(* Model of backend/main.py of WebMarketSite: the FastAPI application      *)
(* with its in-memory catalog (templates_db), its process-global cart      *)
(* (cart_db), the route table in declaration order and the handlers of     *)
(* the catalog and cart endpoints.                                         *)
(*                                                                         *)
(* Python str values are sequences of one-character strings, so that       *)
(* str.lower() and the lexicographic comparison of created_at are          *)
(* computed and not assumed.  Optional[str] is a sequence of length 0      *)
(* (None) or 1.  The float fields price and rating hold decimals with at   *)
(* most one fractional digit; price is kept in whole units (all seed       *)
(* prices are whole) and rating in tenths, which preserves order and the   *)
(* exactness of price * quantity.  Fields that no modelled handler reads   *)
(* (description, author, image_url, tags) are left out of the records.     *)
(***************************************************************************)
EXTENDS Integers, Sequences, FiniteSets, TLC

VARIABLES templates_db, cart_db, now, request, response, tasks

vars == <<templates_db, cart_db, now, request, response, tasks>>

(***************************************************************************)
(* Bounds of the model                                                     *)
(***************************************************************************)
MaxOffset == 7
MaxAppends == 3
MaxQty == 11
NumClients == 2

(***************************************************************************)
(* Program constants                                                       *)
(***************************************************************************)
LimitMin == 1
LimitMax == 100
LimitDefault == 10
OffsetMin == 0
QuantityMin == 1
QuantityMax == 10
TrendingDefault == 5
FeaturedDefault == 3

(***************************************************************************)
(* Strings                                                                 *)
(***************************************************************************)
None == <<>>
Some(x) == <<x>>

LowerTable ==
    ("A" :> "a") @@ ("B" :> "b") @@ ("C" :> "c") @@ ("D" :> "d") @@
    ("E" :> "e") @@ ("F" :> "f") @@ ("G" :> "g") @@ ("H" :> "h") @@
    ("I" :> "i") @@ ("J" :> "j") @@ ("K" :> "k") @@ ("L" :> "l") @@
    ("M" :> "m") @@ ("N" :> "n") @@ ("O" :> "o") @@ ("P" :> "p") @@
    ("Q" :> "q") @@ ("R" :> "r") @@ ("S" :> "s") @@ ("T" :> "t") @@
    ("U" :> "u") @@ ("V" :> "v") @@ ("W" :> "w") @@ ("X" :> "x") @@
    ("Y" :> "y") @@ ("Z" :> "z")

\* str.lower()
Lower(s) ==
    [i \in 1..Len(s) |-> IF s[i] \in DOMAIN LowerTable THEN LowerTable[s[i]] ELSE s[i]]

CharCode ==
    ("0" :> 48) @@ ("1" :> 49) @@ ("2" :> 50) @@ ("3" :> 51) @@ ("4" :> 52) @@
    ("5" :> 53) @@ ("6" :> 54) @@ ("7" :> 55) @@ ("8" :> 56) @@ ("9" :> 57) @@
    ("-" :> 45) @@ (":" :> 58) @@ ("T" :> 84) @@ ("Z" :> 90)

\* a < b on Python str: code point order on the first difference, a proper
\* prefix is smaller
RECURSIVE StrLess(_, _)
StrLess(a, b) ==
    IF b = <<>> THEN FALSE
    ELSE IF a = <<>> THEN TRUE
    ELSE IF CharCode[Head(a)] < CharCode[Head(b)] THEN TRUE
    ELSE IF CharCode[Head(a)] > CharCode[Head(b)] THEN FALSE
    ELSE StrLess(Tail(a), Tail(b))

Min(a, b) == IF a < b THEN a ELSE b
Max(a, b) == IF a > b THEN a ELSE b

\* seq[lo:hi] of Python, negative indices counted from the end
PySlice(seq, lo, hi) ==
    LET n == Len(seq)
        l == IF lo < 0 THEN Max(n + lo, 0) ELSE Min(lo, n)
        h == IF hi < 0 THEN Max(n + hi, 0) ELSE Min(hi, n)
    IN  SubSeq(seq, l + 1, h)

Reverse(seq) == [i \in 1..Len(seq) |-> seq[Len(seq) + 1 - i]]

(***************************************************************************)
(* Catalog Store                                                           *)
(***************************************************************************)
SeedTemplates ==
    << [id |-> 1, title |-> "ModernShop Pro", price |-> 89,
        category |-> <<"E","-","c","o","m","m","e","r","c","e">>,
        downloads |-> 1250, rating |-> 48,
        created_at |-> <<"2","0","2","4","-","0","1","-","1","5","T","1","0",":","0","0",":","0","0","Z">>],
       [id |-> 2, title |-> "Creative Portfolio", price |-> 69,
        category |-> <<"P","o","r","t","f","o","l","i","o">>,
        downloads |-> 890, rating |-> 49,
        created_at |-> <<"2","0","2","4","-","0","1","-","1","0","T","1","4",":","3","0",":","0","0","Z">>],
       [id |-> 3, title |-> "Business Suite", price |-> 129,
        category |-> <<"B","u","s","i","n","e","s","s">>,
        downloads |-> 567, rating |-> 47,
        created_at |-> <<"2","0","2","4","-","0","1","-","0","5","T","0","9",":","1","5",":","0","0","Z">>],
       [id |-> 4, title |-> "Tech Startup Kit", price |-> 149,
        category |-> <<"L","a","n","d","i","n","g"," ","P","a","g","e">>,
        downloads |-> 723, rating |-> 46,
        created_at |-> <<"2","0","2","4","-","0","1","-","0","8","T","1","6",":","4","5",":","0","0","Z">>],
       [id |-> 5, title |-> "Restaurant Pro", price |-> 79,
        category |-> <<"R","e","s","t","a","u","r","a","n","t">>,
        downloads |-> 445, rating |-> 45,
        created_at |-> <<"2","0","2","4","-","0","1","-","1","2","T","1","1",":","2","0",":","0","0","Z">>],
       [id |-> 6, title |-> "Blog Master", price |-> 49,
        category |-> <<"B","l","o","g">>,
        downloads |-> 892, rating |-> 44,
        created_at |-> <<"2","0","2","4","-","0","1","-","1","8","T","1","3",":","1","0",":","0","0","Z">>] >>

\* A catalog of the same shape whose templates share sort keys; the seed has
\* no two templates with an equal key in any sort field.
TiedTemplates ==
    << [id |-> 1, title |-> "A", price |-> 50,
        category |-> <<"B","l","o","g">>,
        downloads |-> 100, rating |-> 45,
        created_at |-> <<"2","0","2","4","-","0","2","-","0","1">>],
       [id |-> 2, title |-> "B", price |-> 40,
        category |-> <<"B","L","O","G">>,
        downloads |-> 100, rating |-> 45,
        created_at |-> <<"2","0","2","4","-","0","2","-","0","1","T","0","8",":","0","0",":","0","0","Z">>],
       [id |-> 3, title |-> "C", price |-> 50,
        category |-> <<"B","u","s","i","n","e","s","s">>,
        downloads |-> 90, rating |-> 45,
        created_at |-> <<"2","0","2","4","-","0","2","-","0","1">>],
       [id |-> 4, title |-> "D", price |-> 40,
        category |-> <<"b","l","o","g">>,
        downloads |-> 100, rating |-> 44,
        created_at |-> <<"2","0","2","4","-","0","2","-","0","1">>],
       [id |-> 5, title |-> "E", price |-> 50,
        category |-> <<"B","l","o","g">>,
        downloads |-> 90, rating |-> 45,
        created_at |-> <<"2","0","2","4","-","0","3","-","0","1">>] >>

Catalogs == {SeedTemplates, TiedTemplates, <<>>}

\* next((x for x in seq if P(x)), None), given P(x) for each x of seq in
\* order: the position of the first match, 0 for None
FirstIndex(matches) ==
    LET S == {i \in 1..Len(matches) : matches[i]}
    IN  IF S = {} THEN 0 ELSE CHOOSE i \in S : \A j \in S : i <= j

FindTemplate(db, template_id) ==
    FirstIndex([i \in 1..Len(db) |-> db[i].id = template_id])

(***************************************************************************)
(* Query Engine: GET /api/templates                                        *)
(***************************************************************************)
SortFields == {"downloads", "rating", "price", "created_at"}
Orders == {"asc", "desc"}

\* key(x) < key(y) for the key function of the chosen field
KeyLess(x, y, sort_by) ==
    IF sort_by = "created_at" THEN StrLess(x.created_at, y.created_at)
    ELSE x[sort_by] < y[sort_by]

\* binary insertion as list.sort does it for short lists: x goes to the
\* right of every element that is not greater than x
RECURSIVE InsertSorted(_, _, _)
InsertSorted(sorted, x, sort_by) ==
    IF sorted = <<>> THEN <<x>>
    ELSE IF KeyLess(x, Head(sorted), sort_by) THEN <<x>> \o sorted
    ELSE <<Head(sorted)>> \o InsertSorted(Tail(sorted), x, sort_by)

RECURSIVE StableSort(_, _)
StableSort(seq, sort_by) ==
    IF seq = <<>> THEN <<>>
    ELSE InsertSorted(StableSort(SubSeq(seq, 1, Len(seq) - 1), sort_by),
                      seq[Len(seq)], sort_by)

\* a plausible slip: descending order obtained by reversing the ascending result
ListSortReversedAfter(seq, sort_by, reverse) ==
    IF reverse THEN Reverse(StableSort(seq, sort_by)) ELSE StableSort(seq, sort_by)

\* list.sort(key=..., reverse=reverse): with reverse the list is reversed,
\* sorted ascending by the stable sort and reversed again
ListSort(seq, sort_by, reverse) ==
    IF reverse THEN Reverse(StableSort(Reverse(seq), sort_by))
    ELSE StableSort(seq, sort_by)

\* if category: [t for t in ... if t["category"].lower() == category.lower()]
FilterByCategory(db, category) ==
    IF category # None /\ category[1] # <<>>
    THEN LET P(t) == Lower(t.category) = Lower(category[1]) IN SelectSeq(db, P)
    ELSE db

SortedFiltered(db, category, sort_by, order) ==
    ListSort(FilterByCategory(db, category), sort_by, order = "desc")

\* a plausible slip: the page ends one element early
PaginateShort(filtered, limit, offset) ==
    [templates |-> PySlice(filtered, offset, offset + limit - 1),
     total |-> Len(filtered),
     limit |-> limit,
     offset |-> offset,
     has_more |-> offset + limit < Len(filtered)]

Paginate(filtered, limit, offset) ==
    [templates |-> PySlice(filtered, offset, offset + limit),
     total |-> Len(filtered),
     limit |-> limit,
     offset |-> offset,
     has_more |-> offset + limit < Len(filtered)]

\* Query(ge=1, le=100), Query(ge=0) and the two regex constraints
ListArgsValid(args) ==
    /\ args.limit >= LimitMin /\ args.limit <= LimitMax
    /\ args.offset >= OffsetMin
    /\ args.sort_by \in SortFields
    /\ args.order \in Orders

get_templates(db, args) ==
    IF ~ListArgsValid(args)
    THEN [status |-> 422, endpoint |-> "get_templates", body |-> "validation error"]
    ELSE [status |-> 200, endpoint |-> "get_templates",
          body |-> Paginate(SortedFiltered(db, args.category, args.sort_by, args.order),
                            args.limit, args.offset)]

\* @app.get("/api/templates/{template_id}") after int validation
get_template(db, template_id) ==
    LET i == FindTemplate(db, template_id)
    IN  IF i = 0
        THEN [status |-> 404, endpoint |-> "get_template", body |-> "Template not found"]
        ELSE [status |-> 200, endpoint |-> "get_template", body |-> db[i]]

\* sorted(templates_db, key=..., reverse=True)[:limit]
get_trending_templates(db, limit) ==
    [status |-> 200, endpoint |-> "get_trending_templates",
     body |-> PySlice(ListSort(db, "downloads", TRUE), 0, limit)]

get_featured_templates(db, limit) ==
    [status |-> 200, endpoint |-> "get_featured_templates",
     body |-> PySlice(ListSort(db, "rating", TRUE), 0, limit)]

(***************************************************************************)
(* Cart Store: handlers.  Each returns the response and the cart_db and    *)
(* clock it leaves behind.                                                 *)
(***************************************************************************)
RECURSIVE SumPrice(_)
SumPrice(cart) ==
    IF cart = <<>> THEN 0
    ELSE Head(cart).template.price * Head(cart).quantity + SumPrice(Tail(cart))

RECURSIVE SumQuantity(_)
SumQuantity(cart) ==
    IF cart = <<>> THEN 0 ELSE Head(cart).quantity + SumQuantity(Tail(cart))

\* a plausible slip: the number of units instead of the number of entries
CartBodyCountingUnits(cart) ==
    [items |-> cart, total_items |-> SumQuantity(cart), total_price |-> SumPrice(cart)]

CartBody(cart) ==
    [items |-> cart, total_items |-> Len(cart), total_price |-> SumPrice(cart)]

get_cart(cart, clock) ==
    [status |-> 200, endpoint |-> "get_cart", body |-> CartBody(cart),
     cart |-> cart, now |-> clock]

\* a plausible slip: the cart is searched by item id instead of template_id
FindCartItemByTemplateWrongKey(cart, template_id) ==
    FirstIndex([i \in 1..Len(cart) |-> cart[i].id = template_id])

\* next((item for item in cart_db if item["template_id"] == template_id), None)
FindCartItemByTemplate(cart, template_id) ==
    FirstIndex([i \in 1..Len(cart) |-> cart[i].template_id = template_id])

\* next((item for item in cart_db if item["id"] == item_id), None)
FindCartItemById(cart, item_id) ==
    FirstIndex([i \in 1..Len(cart) |-> cart[i].id = item_id])

\* lines 300-306 of add_to_cart: the two lookups, kept as the handler's locals
AddLookup(db, cart, template_id) ==
    [template |-> FindTemplate(db, template_id),
     existing_item |-> FindCartItemByTemplate(cart, template_id)]

\* lines 301-319 of add_to_cart: the rest of the handler, run on its locals.
\* existing_item is a reference to the dict found by the lookup; it is still
\* an element of cart_db when no other handler ran in between.
AddCommit(db, cart, clock, template_id, locals) ==
    IF locals.template = 0
    THEN [status |-> 404, endpoint |-> "add_to_cart", body |-> "Template not found",
          cart |-> cart, now |-> clock]
    ELSE IF locals.existing_item # 0
    THEN LET i == locals.existing_item
             live == i <= Len(cart) /\ cart[i].template_id = template_id
             after == IF live
                      THEN [cart EXCEPT ![i].quantity = @ + 1]
                      ELSE cart
         IN  [status |-> 200, endpoint |-> "add_to_cart", body |-> "Quantity updated",
              cart |-> after, now |-> clock]
    ELSE LET cart_item == [id |-> Len(cart) + 1,
                           template_id |-> template_id,
                           template |-> db[locals.template],
                           quantity |-> 1,
                           added_at |-> clock + 1]
         IN  [status |-> 200, endpoint |-> "add_to_cart", body |-> "Template added to cart",
              cart |-> Append(cart, cart_item), now |-> clock + 1]

add_to_cart(db, cart, clock, template_id) ==
    AddCommit(db, cart, clock, template_id, AddLookup(db, cart, template_id))

\* a plausible slip: a -1 "not found" index used as a list index before the check
update_cart_item_index_first(cart, clock, item_id, quantity) ==
    LET i == FindCartItemById(cart, item_id)
    IN  IF i = 0
        THEN [status |-> 404, endpoint |-> "update_cart_item", body |-> "Cart item not found",
              cart |-> IF cart = <<>> THEN cart
                       ELSE [cart EXCEPT ![Len(cart)].quantity = quantity],
              now |-> clock]
        ELSE [status |-> 200, endpoint |-> "update_cart_item", body |-> "Cart item updated",
              cart |-> [cart EXCEPT ![i].quantity = quantity], now |-> clock]

update_cart_item(cart, clock, item_id, quantity) ==
    LET i == FindCartItemById(cart, item_id)
    IN  IF i = 0
        THEN [status |-> 404, endpoint |-> "update_cart_item", body |-> "Cart item not found",
              cart |-> cart, now |-> clock]
        ELSE [status |-> 200, endpoint |-> "update_cart_item", body |-> "Cart item updated",
              cart |-> [cart EXCEPT ![i].quantity = quantity], now |-> clock]

\* a plausible slip: ge=0 in place of ge=1
QuantityValidFromZero(quantity) ==
    quantity >= 0 /\ quantity <= QuantityMax

\* Query(..., ge=1, le=10)
QuantityValid(quantity) ==
    quantity >= QuantityMin /\ quantity <= QuantityMax

remove_from_cart(cart, clock, item_id) ==
    LET P(item) == item.id # item_id
        after == SelectSeq(cart, P)
    IN  IF Len(after) = Len(cart)
        THEN [status |-> 404, endpoint |-> "remove_from_cart", body |-> "Cart item not found",
              cart |-> after, now |-> clock]
        ELSE [status |-> 200, endpoint |-> "remove_from_cart", body |-> "Item removed from cart",
              cart |-> after, now |-> clock]

clear_cart(clock) ==
    [status |-> 200, endpoint |-> "clear_cart", body |-> "Cart cleared",
     cart |-> <<>>, now |-> clock]

(***************************************************************************)
(* HTTP Handler Layer: the route table in declaration order.  A path is    *)
(* the sequence of its segments; a segment in braces is a path parameter   *)
(* and matches any segment.  The router hands a request to the first       *)
(* route whose path and method both match; when only paths match the       *)
(* answer is 405, when nothing matches 404.  The routes the framework      *)
(* adds by itself (/openapi.json, /api/docs, /api/redoc, the /static       *)
(* mount) match none of the paths requested here and are left out.         *)
(***************************************************************************)
Routes ==
    << [method |-> "GET",    path |-> <<>>,                                   endpoint |-> "root"],
       [method |-> "GET",    path |-> <<"api","health">>,                     endpoint |-> "health_check"],
       [method |-> "GET",    path |-> <<"api","templates">>,                  endpoint |-> "get_templates"],
       [method |-> "GET",    path |-> <<"api","templates","{template_id}">>,  endpoint |-> "get_template"],
       [method |-> "GET",    path |-> <<"api","templates","category","{category}">>,
                                                                              endpoint |-> "get_templates_by_category"],
       [method |-> "GET",    path |-> <<"api","categories">>,                 endpoint |-> "get_categories"],
       [method |-> "GET",    path |-> <<"api","search">>,                     endpoint |-> "search_templates"],
       [method |-> "GET",    path |-> <<"api","cart">>,                       endpoint |-> "get_cart"],
       [method |-> "POST",   path |-> <<"api","cart","add">>,                 endpoint |-> "add_to_cart"],
       [method |-> "PUT",    path |-> <<"api","cart","{item_id}">>,           endpoint |-> "update_cart_item"],
       [method |-> "DELETE", path |-> <<"api","cart","{item_id}">>,           endpoint |-> "remove_from_cart"],
       [method |-> "DELETE", path |-> <<"api","cart","clear">>,               endpoint |-> "clear_cart"],
       [method |-> "GET",    path |-> <<"api","templates","trending">>,       endpoint |-> "get_trending_templates"],
       [method |-> "GET",    path |-> <<"api","templates","featured">>,       endpoint |-> "get_featured_templates"],
       [method |-> "GET",    path |-> <<"api","stats">>,                      endpoint |-> "get_stats"],
       [method |-> "GET",    path |-> <<"frontend">>,                         endpoint |-> "serve_frontend"] >>

PathParams == {"{template_id}", "{category}", "{item_id}"}

PathMatches(pattern, path) ==
    /\ Len(pattern) = Len(path)
    /\ \A i \in 1..Len(pattern) : pattern[i] \in PathParams \/ pattern[i] = path[i]

Dispatch(method, path) ==
    LET full == {i \in 1..Len(Routes) :
                    PathMatches(Routes[i].path, path) /\ Routes[i].method = method}
        partial == {i \in 1..Len(Routes) : PathMatches(Routes[i].path, path)}
    IN  IF full # {}
        THEN [match |-> "full", index |-> CHOOSE i \in full : \A j \in full : i <= j]
        ELSE IF partial # {}
        THEN [match |-> "partial", index |-> CHOOSE i \in partial : \A j \in partial : i <= j]
        ELSE [match |-> "none", index |-> 0]

\* the decimal literals that occur as path segments
IntLiteral ==
    ("1" :> 1) @@ ("2" :> 2) @@ ("3" :> 3) @@ ("4" :> 4) @@ ("6" :> 6) @@
    ("999" :> 999) @@ ("9999" :> 9999)

\* validation of a path segment declared int: None when it is not an integer
ParseInt(segment) ==
    IF segment \in DOMAIN IntLiteral THEN Some(IntLiteral[segment]) ELSE None

WithState(r, cart, clock) ==
    [status |-> r.status, endpoint |-> r.endpoint, body |-> r.body,
     cart |-> cart, now |-> clock]

Invalid(endpoint, cart, clock) ==
    [status |-> 422, endpoint |-> endpoint, body |-> "validation error",
     cart |-> cart, now |-> clock]

\* the endpoint of the matched route, called after parameter validation
Endpoint(e, db, cart, clock, req) ==
    LET param == req.path[Len(req.path)]
    IN  CASE e = "get_templates" ->
                WithState(get_templates(db, req.args), cart, clock)
          [] e = "get_template" ->
                IF ParseInt(param) = None THEN Invalid(e, cart, clock)
                ELSE WithState(get_template(db, ParseInt(param)[1]), cart, clock)
          [] e = "get_trending_templates" ->
                WithState(get_trending_templates(db,
                    IF req.args.limit = None THEN TrendingDefault ELSE req.args.limit[1]),
                    cart, clock)
          [] e = "get_featured_templates" ->
                WithState(get_featured_templates(db,
                    IF req.args.limit = None THEN FeaturedDefault ELSE req.args.limit[1]),
                    cart, clock)
          [] e = "get_cart" -> get_cart(cart, clock)
          [] e = "add_to_cart" -> add_to_cart(db, cart, clock, req.args.template_id)
          [] e = "update_cart_item" ->
                IF ParseInt(param) = None \/ ~QuantityValid(req.args.quantity)
                THEN Invalid(e, cart, clock)
                ELSE update_cart_item(cart, clock, ParseInt(param)[1], req.args.quantity)
          [] e = "remove_from_cart" ->
                IF ParseInt(param) = None THEN Invalid(e, cart, clock)
                ELSE remove_from_cart(cart, clock, ParseInt(param)[1])
          [] e = "clear_cart" -> clear_cart(clock)
          [] OTHER ->
                [status |-> 200, endpoint |-> e, body |-> "not modelled",
                 cart |-> cart, now |-> clock]

Serve(db, cart, clock, req) ==
    LET d == Dispatch(req.method, req.path)
    IN  IF d.match = "none"
        THEN [status |-> 404, endpoint |-> "none", body |-> "Not Found",
              cart |-> cart, now |-> clock]
        ELSE IF d.match = "partial"
        THEN [status |-> 405, endpoint |-> "none", body |-> "Method Not Allowed",
              cart |-> cart, now |-> clock]
        ELSE Endpoint(Routes[d.index].endpoint, db, cart, clock, req)

(***************************************************************************)
(* Requests                                                                *)
(***************************************************************************)
AddIds == {1, 2, 999}
ItemSegments == {"1", "2", "9999"}
\* every valid quantity and the first invalid one on each side
QuantityInputs == (QuantityMin - 1)..(QuantityMax + 1)

NoRequest == [method |-> "NONE", path |-> <<>>, args |-> [none |-> TRUE]]
NoResponse == [status |-> 0, endpoint |-> "none", body |-> "none"]

AddReq(template_id) ==
    [method |-> "POST", path |-> <<"api","cart","add">>, args |-> [template_id |-> template_id]]
UpdateReq(segment, quantity) ==
    [method |-> "PUT", path |-> <<"api","cart",segment>>, args |-> [quantity |-> quantity]]
RemoveReq(segment) ==
    [method |-> "DELETE", path |-> <<"api","cart",segment>>, args |-> [none |-> TRUE]]
ClearReq ==
    [method |-> "DELETE", path |-> <<"api","cart","clear">>, args |-> [none |-> TRUE]]
GetCartReq ==
    [method |-> "GET", path |-> <<"api","cart">>, args |-> [none |-> TRUE]]

\* the model stops before the clock or a quantity leaves its bound
WithinBounds(r) ==
    /\ r.now <= MaxAppends
    /\ \A i \in 1..Len(r.cart) : r.cart[i].quantity <= MaxQty

IdleTasks == [c \in 1..NumClients |->
                [pc |-> "idle", request |-> NoRequest, locals |-> [template |-> 0, existing_item |-> 0],
                 arrived_absent |-> FALSE, response |-> NoResponse]]

\* one request served from arrival to response, with no other request in between
Handle(req) ==
    \E r \in {Serve(templates_db, cart_db, now, req)} :
        /\ WithinBounds(r)
        /\ cart_db' = r.cart
        /\ now' = r.now
        /\ request' = req
        /\ response' = [status |-> r.status, endpoint |-> r.endpoint, body |-> r.body]
        /\ UNCHANGED <<templates_db, tasks>>

\* requests are served one after the other: none is in flight when one arrives
NoneInFlight == \A c \in 1..NumClients : tasks[c].pc = "idle"

AddRequest ==
    /\ NoneInFlight
    /\ \E template_id \in AddIds : Handle(AddReq(template_id))
UpdateRequest ==
    /\ NoneInFlight
    /\ \E segment \in ItemSegments, quantity \in QuantityInputs :
          Handle(UpdateReq(segment, quantity))
RemoveRequest ==
    /\ NoneInFlight
    /\ \E segment \in ItemSegments : Handle(RemoveReq(segment))
ClearRequest ==
    /\ NoneInFlight
    /\ Handle(ClearReq)
GetCartRequest ==
    /\ NoneInFlight
    /\ Handle(GetCartReq)

Init ==
    /\ templates_db = SeedTemplates
    /\ cart_db = <<>>
    /\ now = 0
    /\ request = NoRequest
    /\ response = NoResponse
    /\ tasks = IdleTasks

Next ==
    \/ AddRequest
    \/ UpdateRequest
    \/ RemoveRequest
    \/ ClearRequest
    \/ GetCartRequest

Spec == Init /\ [][Next]_vars

(***************************************************************************)
(* Catalog queries.  The handlers read templates_db only, so each          *)
(* behaviour serves one request: Init draws the catalog and the request,   *)
(* the action of the request's kind serves it.                             *)
(***************************************************************************)
CategoryInputs ==
    { None,
      Some(<<>>),
      Some(<<"B","l","o","g">>),
      Some(<<"b","l","o","g">>),
      Some(<<"B","u","s","i","n","e","s","s">>),
      Some(<<"G","a","m","e","s">>) }

ListReq(category, limit, offset, sort_by, order) ==
    [method |-> "GET", path |-> <<"api","templates">>,
     args |-> [category |-> category, limit |-> limit, offset |-> offset,
               sort_by |-> sort_by, order |-> order]]

ValidListRequests ==
    { ListReq(category, limit, offset, sort_by, order) :
        category \in CategoryInputs, limit \in LimitMin..LimitMax,
        offset \in OffsetMin..MaxOffset, sort_by \in SortFields, order \in Orders }

InvalidListRequests ==
    { ListReq(None, limit, offset, sort_by, order) :
        limit \in {LimitMin - 1, LimitDefault, LimitMax + 1},
        offset \in {OffsetMin - 1, OffsetMin},
        sort_by \in {"downloads", "title"}, order \in {"desc", "up"} }
    \ ValidListRequests

TemplateSegments == {"1", "6", "999"}
LimitInputs == {None, Some(2), Some(6)}

GetTemplateReq(segment) ==
    [method |-> "GET", path |-> <<"api","templates",segment>>, args |-> [none |-> TRUE]]
TrendingReq(limit) ==
    [method |-> "GET", path |-> <<"api","templates","trending">>, args |-> [limit |-> limit]]
FeaturedReq(limit) ==
    [method |-> "GET", path |-> <<"api","templates","featured">>, args |-> [limit |-> limit]]

CatalogRequests ==
    ValidListRequests \cup InvalidListRequests
    \cup {GetTemplateReq(segment) : segment \in TemplateSegments}
    \cup {TrendingReq(limit) : limit \in LimitInputs}
    \cup {FeaturedReq(limit) : limit \in LimitInputs}

Pending == response = NoResponse

ListRequest ==
    /\ Pending /\ request \in ValidListRequests
    /\ Handle(request)
RejectedListRequest ==
    /\ Pending /\ request \in InvalidListRequests
    /\ Handle(request)
GetTemplateRequest ==
    /\ Pending /\ \E segment \in TemplateSegments : request = GetTemplateReq(segment)
    /\ Handle(request)
TrendingRequest ==
    /\ Pending /\ \E limit \in LimitInputs : request = TrendingReq(limit)
    /\ Handle(request)
FeaturedRequest ==
    /\ Pending /\ \E limit \in LimitInputs : request = FeaturedReq(limit)
    /\ Handle(request)

InitList ==
    /\ templates_db \in Catalogs
    /\ cart_db = <<>>
    /\ now = 0
    /\ request \in CatalogRequests
    /\ response = NoResponse
    /\ tasks = IdleTasks

NextList ==
    \/ ListRequest
    \/ RejectedListRequest
    \/ GetTemplateRequest
    \/ TrendingRequest
    \/ FeaturedRequest

SpecList == InitList /\ [][NextList]_vars

(***************************************************************************)
(* Concurrent requests.  Every endpoint is an "async def" coroutine run    *)
(* by the one event loop of the one server process: a handler that has     *)
(* started runs until its next await expression or its return before any   *)
(* other handler runs.  A task is "ready" when its request has arrived,    *)
(* "suspended" at an await inside the handler, "done" when answered.       *)
(***************************************************************************)
\* what the handler would have if it awaited between its lookups and its update
AddAwaitsAfterLookup == {"after_lookup"}

\* the await expressions in the body of add_to_cart: there is none
AddAwaits == {}

MaxConcQty == 2

ConcRequests ==
    {AddReq(template_id) : template_id \in AddIds} \cup {RemoveReq("1")}

WithinConcBounds(r) ==
    /\ r.now <= MaxAppends
    /\ \A i \in 1..Len(r.cart) : r.cart[i].quantity <= MaxConcQty

IsAdd(req) ==
    LET d == Dispatch(req.method, req.path)
    IN  d.match = "full" /\ Routes[d.index].endpoint = "add_to_cart"

\* a client whose previous request (if any) was answered sends a request;
\* arrived_absent records, for the properties only, that the request is an Add
\* of a template that was not in the cart when the request arrived
Submit(c) ==
    /\ tasks[c].pc \in {"idle", "done"}
    /\ \E req \in ConcRequests :
          tasks' = [tasks EXCEPT ![c] = [pc |-> "ready", request |-> req,
                                         locals |-> [template |-> 0, existing_item |-> 0],
                                         arrived_absent |->
                                            /\ IsAdd(req)
                                            /\ FindCartItemByTemplate(cart_db, req.args.template_id) = 0,
                                         response |-> NoResponse]]
    /\ UNCHANGED <<templates_db, cart_db, now, request, response>>

\* the event loop runs task c up to its next await or to its return
RunTask(c) ==
    LET t == tasks[c]
        suspends == t.pc = "ready" /\ IsAdd(t.request) /\ "after_lookup" \in AddAwaits
    IN  /\ t.pc \in {"ready", "suspended"}
        /\ IF suspends
           THEN /\ tasks' = [tasks EXCEPT ![c].pc = "suspended",
                                          ![c].locals = AddLookup(templates_db, cart_db,
                                                            t.request.args.template_id)]
                /\ UNCHANGED <<cart_db, now>>
           ELSE \E r \in {IF t.pc = "suspended"
                           THEN AddCommit(templates_db, cart_db, now,
                                          t.request.args.template_id, t.locals)
                           ELSE Serve(templates_db, cart_db, now, t.request)} :
                    /\ WithinConcBounds(r)
                    /\ cart_db' = r.cart
                    /\ now' = r.now
                    /\ tasks' = [tasks EXCEPT ![c].pc = "done",
                                              ![c].response = [status |-> r.status,
                                                               endpoint |-> r.endpoint,
                                                               body |-> r.body]]
        /\ UNCHANGED <<templates_db, request, response>>

NextConc ==
    \/ \E c \in 1..NumClients : Submit(c)
    \/ \E c \in 1..NumClients : RunTask(c)

SpecConc == Init /\ [][NextConc]_vars

(***************************************************************************)
(* Properties                                                              *)
(***************************************************************************)
IsAddRequest(req) == req.method = "POST" /\ req.path = <<"api","cart","add">>
IsClearRequest(req) == req.method = "DELETE" /\ req.path = <<"api","cart","clear">>
IsUpdateRequest(req) ==
    req.method = "PUT" /\ Len(req.path) = 3 /\ req.path[3] \in DOMAIN IntLiteral
IsRemoveRequest(req) ==
    req.method = "DELETE" /\ Len(req.path) = 3 /\ req.path[3] \in DOMAIN IntLiteral
IsListRequest(req) == req.method = "GET" /\ req.path = <<"api","templates">>

AtMostOnePerTemplate(cart) ==
    \A i, j \in 1..Len(cart) : i # j => cart[i].template_id # cart[j].template_id

\* the step serves an Add of a template that is in the cart: that item's
\* quantity grows by one and nothing else in the cart changes
AddOfPresentIncrements ==
    \A i \in 1..Len(cart_db) :
        (IsAddRequest(request') /\ request'.args.template_id = cart_db[i].template_id
            /\ \A k \in 1..(i - 1) : cart_db[k].template_id # cart_db[i].template_id)
        => /\ response'.status = 200
           /\ cart_db' = [cart_db EXCEPT ![i].quantity = cart_db[i].quantity + 1]

\* C1: with requests served one after the other, the cart never holds two
\* CartItems with the same template_id, and an Add of a template_id that is in
\* the cart increments that item's quantity without appending.
C1_AtMostOneItemPerTemplate ==
    [](AtMostOnePerTemplate(cart_db)) /\ [][AddOfPresentIncrements]_vars

C1_Witness ==
    /\ IsAddRequest(request)
    /\ response.status = 200
    /\ response.body = "Quantity updated"
    /\ Len(cart_db) = 2
    /\ \E i \in 1..Len(cart_db) :
          cart_db[i].template_id = request.args.template_id /\ cart_db[i].quantity >= 2

\* C2: DELETE /api/cart/clear is answered without error and leaves the cart
\* empty, from every cart state and also when the cart is already empty.
C2_ClearAlwaysSucceeds ==
    IsClearRequest(request) => response.status = 200 /\ cart_db = <<>>

\* a served, valid List request
ListServed ==
    IsListRequest(request) /\ response.endpoint = "get_templates" /\ response.status = 200

\* the number of templates whose category equals the given one, case-insensitively
MatchCount(db, category) ==
    IF category = None THEN Len(db)
    ELSE Cardinality({i \in 1..Len(db) : Lower(db[i].category) = Lower(category[1])})

\* the same, an empty category string counting as no filter
MatchCountNonEmpty(db, category) ==
    IF category = None \/ category[1] = <<>> THEN Len(db)
    ELSE Cardinality({i \in 1..Len(db) : Lower(db[i].category) = Lower(category[1])})

PageOf(total) ==
    LET a == request.args
        b == response.body
        S == SortedFiltered(templates_db, a.category, a.sort_by, a.order)
        n == Min(a.limit, Max(0, total - a.offset))
    IN  /\ b.total = total
        /\ Len(b.templates) = n
        /\ \A i \in 1..n : b.templates[i] = S[a.offset + i]
        /\ b.has_more = (a.offset + a.limit < total)

\* C3 as stated: for every category filter, valid limit and offset, total is
\* the number of templates matching the category, the page has
\* min(L, max(0, total - O)) templates, which are positions [O, O+L) of the
\* sorted filtered sequence, and has_more is O + L < total.  Stated of the
\* seed catalog, the one the program runs with.
C3_PageOfMatching ==
    (ListServed /\ templates_db = SeedTemplates)
        => PageOf(MatchCount(templates_db, request.args.category))

\* C3 amended: the same with an empty category string treated as no filter.
C3_PageOfMatchingNonEmpty ==
    ListServed => PageOf(MatchCountNonEmpty(templates_db, request.args.category))

C3_Witness ==
    /\ ListServed
    /\ request.args.category # None
    /\ request.args.category[1] # <<>>
    /\ request.args.offset > 0
    /\ Len(response.body.templates) = request.args.limit
    /\ Len(response.body.templates) >= 2
    /\ response.body.has_more

KeysEqual(x, y, sort_by) == ~KeyLess(x, y, sort_by) /\ ~KeyLess(y, x, sort_by)

\* C4: the sorted filtered sequence is a permutation of the filtered catalog,
\* non-decreasing (asc) or non-increasing (desc) in the sort field, and
\* templates with equal keys keep their catalog order in both directions; the
\* response that holds the whole sequence shows it.
C4_SortedStable ==
    ListServed =>
        LET a == request.args
            F == FilterByCategory(templates_db, a.category)
            S == SortedFiltered(templates_db, a.category, a.sort_by, a.order)
        IN  /\ Len(S) = Len(F)
            /\ \A k \in 1..Len(F) :
                  Cardinality({i \in 1..Len(S) : S[i] = F[k]})
                    = Cardinality({i \in 1..Len(F) : F[i] = F[k]})
            /\ \A i, j \in 1..Len(S) :
                  i < j =>
                    /\ a.order = "asc" => ~KeyLess(S[j], S[i], a.sort_by)
                    /\ a.order = "desc" => ~KeyLess(S[i], S[j], a.sort_by)
                    /\ KeysEqual(S[i], S[j], a.sort_by) =>
                          FindTemplate(templates_db, S[i].id) < FindTemplate(templates_db, S[j].id)
            /\ (a.offset = 0 /\ a.limit >= Len(S)) => response.body.templates = S

C4_Witness ==
    /\ ListServed
    /\ request.args.order = "desc"
    /\ Len(response.body.templates) >= 3
    /\ \E i, j \in 1..Len(response.body.templates) :
          /\ i < j
          /\ KeysEqual(response.body.templates[i], response.body.templates[j],
                       request.args.sort_by)
    /\ \E i, j \in 1..Len(response.body.templates) :
          KeyLess(response.body.templates[j], response.body.templates[i],
                  request.args.sort_by)

IsTrendingRequest(req) == req.method = "GET" /\ req.path = <<"api","templates","trending">>
IsFeaturedRequest(req) == req.method = "GET" /\ req.path = <<"api","templates","featured">>

\* the first n elements of db in descending order of the field, ties in catalog order
IsTopBy(result, db, field, n) ==
    /\ Len(result) = Min(n, Len(db))
    /\ \A i \in 1..Len(result) : \E k \in 1..Len(db) : result[i] = db[k]
    /\ \A i, j \in 1..Len(result) : i < j => result[i][field] >= result[j][field]
    /\ \A i \in 1..Len(result) : \A k \in 1..Len(db) :
          (\A j \in 1..Len(result) : result[j] # db[k]) => db[k][field] <= result[i][field]

\* C5: GET /api/templates/trending (featured) is answered without error by
\* its own handler with the templates in descending order of downloads
\* (rating), cut to limit, default 5 (3).
C5_TrendingAndFeaturedServed ==
    /\ (IsTrendingRequest(request) /\ ~Pending) =>
          /\ response.status = 200
          /\ response.endpoint = "get_trending_templates"
          /\ IsTopBy(response.body, templates_db, "downloads",
                     IF request.args.limit = None THEN TrendingDefault
                     ELSE request.args.limit[1])
    /\ (IsFeaturedRequest(request) /\ ~Pending) =>
          /\ response.status = 200
          /\ response.endpoint = "get_featured_templates"
          /\ IsTopBy(response.body, templates_db, "rating",
                     IF request.args.limit = None THEN FeaturedDefault
                     ELSE request.args.limit[1])

\* the step serves a request whose target does not exist
AddOfUnknownTemplate ==
    /\ IsAddRequest(request')
    /\ \A k \in 1..Len(templates_db) : templates_db[k].id # request'.args.template_id
UpdateOfUnknownItem ==
    /\ IsUpdateRequest(request')
    /\ request'.args.quantity \in QuantityMin..QuantityMax
    /\ \A k \in 1..Len(cart_db) : cart_db[k].id # IntLiteral[request'.path[3]]
RemoveOfUnknownItem ==
    /\ IsRemoveRequest(request')
    /\ \A k \in 1..Len(cart_db) : cart_db[k].id # IntLiteral[request'.path[3]]

\* C6: an Add of an unknown template_id, an Update-quantity of an unknown item
\* id and a Remove of an unknown item id are each answered NotFound (404) and
\* leave the cart exactly as it was.
C6_NotFoundLeavesCart ==
    [][(AddOfUnknownTemplate \/ UpdateOfUnknownItem \/ RemoveOfUnknownItem)
          => (response'.status = 404 /\ cart_db' = cart_db)]_vars

C6_Witness ==
    /\ IsUpdateRequest(request)
    /\ response.status = 404
    /\ response.endpoint = "update_cart_item"
    /\ Len(cart_db) = 2
    /\ cart_db[2].quantity # request.args.quantity

TwoAddsOfAbsent(c1, c2) ==
    /\ c1 # c2
    /\ tasks[c1].pc = "done" /\ tasks[c2].pc = "done"
    /\ tasks[c1].arrived_absent /\ tasks[c2].arrived_absent
    /\ tasks[c1].request = tasks[c2].request
    /\ tasks[c1].response.status = 200 /\ tasks[c2].response.status = 200

\* C7 as stated, in the form a run can refute: two concurrent Adds of a
\* template_id that was absent when both arrived both find it absent and both
\* append, so that the cart holds two CartItems for it.
C7_BothAddsAppend ==
    \A c1, c2 \in 1..NumClients :
        TwoAddsOfAbsent(c1, c2) =>
            /\ tasks[c1].response.body = "Template added to cart"
            /\ tasks[c2].response.body = "Template added to cart"
            /\ ~AtMostOnePerTemplate(cart_db)

\* C7 amended: handlers run one at a time from start to return, so with
\* concurrent requests no handler is ever suspended between its lookup and its
\* update, and the cart never holds two CartItems with the same template_id.
C7_ConcurrentAddsSerialized ==
    /\ AtMostOnePerTemplate(cart_db)
    /\ \A c \in 1..NumClients : tasks[c].pc # "suspended"

C7_Witness ==
    \E c1, c2 \in 1..NumClients :
        /\ TwoAddsOfAbsent(c1, c2)
        /\ tasks[c1].response.body = "Template added to cart"
        /\ tasks[c2].response.body = "Quantity updated"
        /\ \E i \in 1..Len(cart_db) :
              /\ cart_db[i].template_id = tasks[c1].request.args.template_id
              /\ cart_db[i].quantity = 2

\* the sum over the catalog of price times the units of that template in the cart
RECURSIVE PriceByCatalog(_, _, _)
PriceByCatalog(db, cart, k) ==
    IF k > Len(db) THEN 0
    ELSE LET units == SumQuantity(SelectSeq(cart, LAMBDA item : item.template_id = db[k].id))
         IN  db[k].price * units + PriceByCatalog(db, cart, k + 1)

CartReported ==
    (request.method = "GET" /\ response.endpoint = "get_cart") =>
        /\ response.body.items = cart_db
        /\ response.body.total_items = Len(cart_db)
        /\ response.body.total_price = PriceByCatalog(templates_db, cart_db, 1)
        /\ \A i, j \in 1..Len(cart_db) : i < j => cart_db[i].added_at < cart_db[j].added_at
        /\ (Len(cart_db) = 1 /\ cart_db[1].template_id = 1 /\ cart_db[1].quantity = 2) =>
              (response.body.total_items = 1 /\ response.body.total_price = 178)

AddOneTwice ==
    /\ (IsAddRequest(request') /\ request'.args.template_id = 1 /\ cart_db = <<>>) =>
          (Len(cart_db') = 1 /\ cart_db'[1].template_id = 1 /\ cart_db'[1].quantity = 1)
    /\ (IsAddRequest(request') /\ request'.args.template_id = 1
            /\ Len(cart_db) = 1 /\ cart_db[1].template_id = 1 /\ cart_db[1].quantity = 1) =>
          (Len(cart_db') = 1 /\ cart_db'[1].template_id = 1 /\ cart_db'[1].quantity = 2)

\* C8: Get reports the items in insertion order, total_items as the number of
\* CartItems and total_price as the sum of price times quantity; Add(1) twice
\* on the empty cart gives one CartItem of quantity 2, reported with
\* total_items 1 and total_price 178.
C8_CartTotals ==
    []CartReported /\ [][AddOneTwice]_vars

C8_Witness ==
    /\ request.method = "GET" /\ response.endpoint = "get_cart"
    /\ Len(cart_db) = 1 /\ cart_db[1].template_id = 1 /\ cart_db[1].quantity = 2
    /\ response.body.total_items = 1
    /\ response.body.total_price = 178

QuantitiesAtLeastOne ==
    \A i \in 1..Len(cart_db) : cart_db[i].quantity >= 1

\* a served Update-quantity changes one item's quantity to the requested
\* value, which lies in 1..10
UpdateSetsInRange ==
    (request'.method = "PUT" /\ cart_db' # cart_db) =>
        /\ request'.args.quantity \in QuantityMin..QuantityMax
        /\ \E i \in 1..Len(cart_db) :
              cart_db' = [cart_db EXCEPT ![i].quantity = request'.args.quantity]

\* C9: every quantity in the cart is at least 1; Update-quantity only sets
\* values in 1..10; an Add of a template_id in the cart adds exactly 1 to its
\* quantity whatever the quantity is (a quantity above 10 is reached).
C9_QuantityRange ==
    []QuantitiesAtLeastOne /\ [][UpdateSetsInRange /\ AddOfPresentIncrements]_vars

C9_Witness ==
    /\ IsAddRequest(request)
    /\ response.status = 200
    /\ \E i \in 1..Len(cart_db) :
          /\ cart_db[i].template_id = request.args.template_id
          /\ cart_db[i].quantity > QuantityMax

\* C10: the CartItems present in the cart have pairwise distinct ids.
C10_DistinctItemIds ==
    \A i, j \in 1..Len(cart_db) : i # j => cart_db[i].id # cart_db[j].id

====
